---- MODULE Spec2Model ----
(***************************************************************************)
(* Order-ingestion pipeline of noneca_com: the marketplace client's rate   *)
(* counter and error mapping (src/src/extractors/ml_api_client.py), and    *)
(* the retry wrapper, the paginated fetcher, the loader, the state tracker *)
(* and the orchestrator (src/seller_orders_pipeline.py).                   *)
(*                                                                         *)
(* The module holds six specifications over one set of variables:          *)
(*   SpecLoad       sequences of load_batch calls on the relational store  *)
(*   SpecRate       MLClient._req calls against the wall clock             *)
(*   SpecRetry      one safe_api_call invocation after the other           *)
(*   SpecToken      get_token calls against the wall clock                 *)
(*   SpecTransform  transform_order on the date stamps of one order        *)
(*   Spec           main / run_pipeline / fetch_all_orders, one run        *)
(***************************************************************************)
EXTENDS Integers, Sequences, FiniteSets, Bags, TLC

VARIABLES
    \* ---- relational store (sqlite tables) ----
    orders,          \* set of rows [id, seller_id, status, date_created]  (PK id)
    order_items,     \* bag of rows [order_id, item]   (autoincrement key dropped)
    payments,        \* set of rows [id, order_id]               (PK id)
    etl_state,       \* sequence of rows, in insertion order
    \* ---- load_batch bookkeeping ----
    loadResult,      \* "none" | "ok" | "raised": how the last load_batch call ended
    lastLoad,        \* history: order id -> the record of its last committed load
    \* ---- MLClient ----
    now,             \* datetime.now(), in seconds
    rate,            \* MLClient._rate: [calls, reset]
    reqResult,       \* the last _req call: [sent, kind, ...]
    sent_at,         \* history: when the last RateLimit + 1 sent requests were sent
    \* ---- safe_api_call ----
    sac,             \* the last safe_api_call invocation: [func, trace, sleeps, result]
    \* ---- token management ----
    token_file,      \* the content of cfg.token_file, NoFile when it does not exist
    fallback_expires,\* cfg.fallback_expires
    issued,          \* the number of the last token the OAuth endpoint handed out
    tok,             \* the last get_token call: [returned, contacted, exchange, at, flip]
    \* ---- transform_order ----
    order_data,      \* the date stamps of the raw order: [date_created, date_closed]
    order_out,       \* what transform_order did with order_data
    \* ---- enrich_items ----
    raw_items,       \* the argument of the enrich_items call
    enriched,        \* what enrich_items did with raw_items
    \* ---- one run of main / run_pipeline / fetch_all_orders ----
    pc,              \* "start" | "fetch" | "yielded" | "loaded" | "exited"
    date_range,      \* [start_date, end_date] of the command line, NoDate: not given
    seen_order_ids,
    consecutive_empty_calls,
    total_fetched,
    total_orders,
    batch,           \* the filtered_orders the fetcher is suspended on at its yield
    slept,           \* ms the fetcher has slept since its last page fetch
    exit_code,       \* of the process, once pc = "exited"
    outcome,         \* history: how the run ended
    lastWrite,       \* history: the last _update_etl_state call of the run
    prevWrite,       \* history: the _update_etl_state call before that one
    raised,          \* history: the exception that left run_pipeline
    resumed,         \* history: the fetcher found the seller's state row "paused"
    stored,          \* history: the seller's order ids in the store when the fetcher began
    emptyRun,        \* history: consecutive fetched pages without an unseen id
    emitted,         \* history: the ids of the batches emitted so far
    initial_total,   \* history: the running total the fetcher began with
    emitted_orders   \* history: the number of orders emitted so far

dbVars == <<orders, order_items, payments>>
loadVars == <<loadResult, lastLoad>>
clientVars == <<now, rate, reqResult>>
tokenVars == <<token_file, fallback_expires, issued, tok>>
transformVars == <<order_data, order_out>>
enrichVars == <<raw_items, enriched>>
otherVars == <<sac, tokenVars, transformVars, enrichVars, sent_at>>
fetchVars == <<seen_order_ids, consecutive_empty_calls, total_fetched, batch, slept>>
histVars == <<outcome, lastWrite, prevWrite, raised, resumed, stored, initial_total, emptyRun, emitted, emitted_orders>>
runVars == <<pc, date_range, fetchVars, total_orders, exit_code, histVars>>
vars == <<dbVars, etl_state, loadVars, clientVars, otherVars, runVars>>

-----------------------------------------------------------------------------
(* Bounds and value sets *)

MaxBatch == 2                 \* records per load_batch call

OrderIds == {"o1", "o2", "o3", "o4"}
LoadIds == {"o1", "o2"}       \* the ids load_batch is exercised with on its own
Statuses == {"paid"}
Seller == "354140329"
Dates == {1, 2}               \* parsed date_created values, in days
NoDate == 0                   \* safe_datetime's None
NoLoad == [none |-> TRUE]

\* The child rows a transformed order carries: item lists (an item may repeat,
\* rows differ only in the dropped autoincrement key) and payment id lists.
ItemLists == {<< >>, <<"i1">>, <<"i2", "i2">>, <<"i1", "i2">>}
PaymentLists == {<< >>, <<"p1">>, <<"p2">>, <<"p1", "p2">>}

\* transform_order's result: {"order": ..., "items": [...], "payments": [...]}
Transformed ==
    [order : [id : OrderIds, seller_id : {Seller}, status : Statuses,
              date_created : Dates \cup {NoDate}],
     items : ItemLists, payments : PaymentLists]

\* The records load_batch is called with. Children travel together to keep
\* the batch space small: no children, one item and payment p1, a repeated
\* item and payment p2, two items and both payments.
LoadRecords ==
    {d \in Transformed :
        /\ d.order.id \in LoadIds
        /\ d.order.date_created # NoDate
        /\ \/ d.items = << >> /\ d.payments = << >>
           \/ d.items = <<"i1">> /\ d.payments = <<"p1">>
           \/ d.items = <<"i2", "i2">> /\ d.payments = <<"p2">>
           \/ d.items = <<"i1", "i2">> /\ d.payments = <<"p1", "p2">>}

RECURSIVE SeqsUpTo(_, _)
SeqsUpTo(S, n) ==
    IF n = 0 THEN {<< >>}
    ELSE LET shorter == SeqsUpTo(S, n - 1)
         IN  shorter \cup {Append(s, x) : s \in {t \in shorter : Len(t) = n - 1}, x \in S}

Batches == SeqsUpTo(LoadRecords, MaxBatch) \ {<< >>}

-----------------------------------------------------------------------------
(* Loader: MercadoLibreETL.load_batch *)

Db == [orders |-> orders, order_items |-> order_items, payments |-> payments]

\* session.query(Order).filter_by(id=...).first()
ExistingOrder(db, id) == {r \in db.orders : r.id = id}

\* for key, value in data["order"].items(): setattr(existing_order, key, value)
NoOverwrite(db, data) == db.orders
UpdateOrder(db, data) == (db.orders \ ExistingOrder(db, data.order.id)) \cup {data.order}

\* session.query(OrderItem).filter_by(order_id=...).delete()
KeepItems(items, id) == items
DeleteItems(items, id) ==
    [r \in {x \in DOMAIN items : x.order_id # id} |-> items[r]]

\* session.query(Payment).filter_by(order_id=...).delete()
DeleteEveryPayment(pays, id) == {}
DeletePayments(pays, id) == {r \in pays : r.order_id # id}

\* for item_data in data["items"]: session.add(OrderItem(**item_data))
RECURSIVE AddItems(_, _, _)
AddItems(items, id, list) ==
    IF list = << >> THEN items
    ELSE AddItems(items (+) SetToBag({[order_id |-> id, item |-> Head(list)]}),
                  id, Tail(list))

\* for payment_data in data["payments"]: session.add(Payment(**payment_data));
\* the payments table's primary key rejects an id that is already stored.
RECURSIVE AddPayments(_, _, _)
AddPayments(pays, id, list) ==
    IF list = << >> THEN [ok |-> TRUE, payments |-> pays]
    ELSE IF \E r \in pays : r.id = Head(list)
         THEN [ok |-> FALSE, payments |-> pays]
         ELSE AddPayments(pays \cup {[id |-> Head(list), order_id |-> id]},
                          id, Tail(list))

\* orders.date_created is declared nullable=False: the flush of a row whose
\* date_created is None raises IntegrityError.
NotNullOk(row) == row.date_created # NoDate

\* One iteration of load_batch's loop over transformed_data_list.
LoadRecord(db, data) ==
    LET id == data.order.id
        found == ExistingOrder(db, id) # {}
        ords == IF found THEN UpdateOrder(db, data) ELSE db.orders \cup {data.order}
        its == IF found THEN DeleteItems(db.order_items, id) ELSE db.order_items
        pys == IF found THEN DeletePayments(db.payments, id) ELSE db.payments
        added == AddPayments(pys, id, data.payments)
    IN  [ok |-> added.ok /\ NotNullOk(data.order),
         db |-> [orders |-> ords,
                 order_items |-> AddItems(its, id, data.items),
                 payments |-> added.payments]]

\* The loop: stops at the first record whose persistence fails.
RECURSIVE LoadLoop(_, _)
LoadLoop(db, list) ==
    IF list = << >> THEN [ok |-> TRUE, db |-> db]
    ELSE LET r == LoadRecord(db, Head(list))
         IN  IF r.ok THEN LoadLoop(r.db, Tail(list)) ELSE r

\* except SQLAlchemyError: session.rollback()
KeepPartial(before, partial) == partial
Rollback(before, partial) == before

\* load_batch swallowing its error: the store is rolled back, nothing is raised.
LoadSwallowsError(db, list, commitOk) ==
    LET r == LoadLoop(db, list)
    IN  IF r.ok /\ commitOk
        THEN [raised |-> FALSE, db |-> r.db]
        ELSE [raised |-> FALSE, db |-> db]

\* load_batch as a function of the store, the batch and whether the commit
\* itself succeeds: the store afterwards and whether the call raised.
LoadBatchResult(db, list, commitOk) ==
    LET r == LoadLoop(db, list)
    IN  IF r.ok /\ commitOk
        THEN [raised |-> FALSE, db |-> r.db]
        ELSE [raised |-> TRUE, db |-> Rollback(db, r.db)]

RECURSIVE RecordLoads(_, _)
RecordLoads(hist, list) ==
    IF list = << >> THEN hist
    ELSE RecordLoads([hist EXCEPT ![Head(list).order.id] = Head(list)], Tail(list))

load_batch(list, commitOk) ==
    \E r \in {LoadBatchResult(Db, list, commitOk)} :
        /\ orders' = r.db.orders
        /\ order_items' = r.db.order_items
        /\ payments' = r.db.payments
        /\ loadResult' = IF r.raised THEN "raised" ELSE "ok"
        /\ lastLoad' = IF r.raised THEN lastLoad ELSE RecordLoads(lastLoad, list)

-----------------------------------------------------------------------------
(* API client: MLClient._check_rate, MLClient._req, MLClient.get_orders *)

RateLimit == 2                \* cfg.rate_limit
Window == 60                  \* timedelta(minutes=1), in seconds
MaxTime == 125                \* the clock stops here
MaxRollTime == 92             \* the clock of the rolling-window check stops here
RollSteps == {30, 31}         \* and advances by about half a window
TickSteps == {1, 60}

\* What the network does with one request: an HTTP response with a status, a
\* timeout, or another transport failure.
HttpStatuses == {200, 204, 400, 401, 403, 404, 429, 500, 503}
NetOutcomes ==
    [kind : {"response"}, status : HttpStatuses]
        \cup {[kind |-> "timeout"], [kind |-> "connection_error"]}

\* An exception is its class, its message and the HTTP status it is about (0: none).
NoExc == [class |-> "none", msg |-> "", status |-> 0]
BuiltinException(msg, status) == [class |-> "Exception", msg |-> msg, status |-> status]

\* if now - self._rate["reset"] > timedelta(minutes=1): self._rate = {calls: 0, reset: now}
NeverReset(r, t) == r
WindowReset(r, t) ==
    IF t - r.reset > Window THEN [calls |-> 0, reset |-> t] ELSE r

\* _check_rate: the counter afterwards and whether the check raised.
CountRejected(r, t) ==
    LET w == WindowReset(r, t)
    IN  [raised |-> w.calls >= RateLimit, rate |-> [w EXCEPT !.calls = @ + 1]]
CheckRate(r, t) ==
    LET w == WindowReset(r, t)
    IN  IF w.calls >= RateLimit
        THEN [raised |-> TRUE, rate |-> w]
        ELSE [raised |-> FALSE, rate |-> [w EXCEPT !.calls = @ + 1]]

\* _req's error_map and its except clauses: every failure leaves _req as a
\* builtin Exception carrying a message, never as a requests exception.
ErrorMessage(status) ==
    CASE status = 401 -> "Unauthorized"
      [] status = 403 -> "Forbidden"
      [] status = 404 -> "Not found"
      [] status = 429 -> "Rate limited"
      [] OTHER -> "HTTP status"

\* _req after the rate check passed: session.request, raise_for_status, then
\* {} for a 204 (empty) and resp.json() (value) otherwise.
Response(net, body) ==
    IF net.kind = "timeout" THEN [kind |-> "raise", exc |-> BuiltinException("Request timeout", 0)]
    ELSE IF net.kind = "connection_error"
         THEN [kind |-> "raise", exc |-> BuiltinException("Request failed", 0)]
    ELSE IF net.status >= 400
         THEN [kind |-> "raise", exc |-> BuiltinException(ErrorMessage(net.status), net.status)]
    ELSE [kind |-> "return", empty |-> net.status = 204, value |-> body]

\* _req: the rate check, then the request.
Req(r, t, net, body) ==
    LET c == CheckRate(r, t)
    IN  IF c.raised
        THEN [sent |-> FALSE, rate |-> c.rate,
              out |-> [kind |-> "raise", exc |-> BuiltinException("Rate limit exceeded", 0)]]
        ELSE [sent |-> TRUE, rate |-> c.rate, out |-> Response(net, body)]

\* One MLClient request at the current time.
ClientRequest ==
    \E net \in NetOutcomes :
        LET r == Req(rate, now, net, "json")
        IN  /\ rate' = r.rate
            /\ reqResult' = [sent |-> r.sent, out |-> r.out,
                             after_reject |-> reqResult.out.kind = "raise" /\ ~reqResult.sent]
            /\ now' = now

\* Time passes between requests.
Tick ==
    \E d \in TickSteps :
        /\ now + d <= MaxTime
        /\ now' = now + d
        /\ UNCHANGED <<rate, reqResult>>

-----------------------------------------------------------------------------
(* Token management: save_tokens, load_tokens, is_valid, refresh_token,    *)
(* get_token of ml_api_client.py. Time is in seconds; access tokens are    *)
(* numbered in the order the OAuth endpoint hands them out.                *)

Margin == 300                 \* timedelta(minutes=5)
MaxTokenTime == 1000          \* the clock stops here
MaxIssued == 3                \* the OAuth endpoint hands out tokens up to this number
TokenTickSteps == {100}
Lifetimes == {300, 700}       \* expires_in of a refreshed token

NoFile == [access_token |-> -1, expires_in |-> 0, refresh_token |-> -1, expires_at |-> 0]

\* The fallback credentials of the configuration.
FallbackToken(expires) ==
    [access_token |-> 0, expires_in |-> 21600, refresh_token |-> 0, expires_at |-> expires]

\* What the token file holds when a run begins.
CachedTokens ==
    {[access_token |-> 1, expires_in |-> 700, refresh_token |-> 1, expires_at |-> e] :
        e \in {200, 400, 900}}

load_tokens(file, fallback) == IF file # NoFile THEN file ELSE FallbackToken(fallback)

\* is_valid: now < expires_at - 5 minutes.
is_valid_to_expiry(tokens, t) == t < tokens.expires_at
is_valid(tokens, t) == t < tokens.expires_at - Margin

\* save_tokens: sets expires_at and overwrites the token file.
StampExpiry(tokens, t) == [tokens EXCEPT !.expires_at = t + tokens.expires_in]
FileKept(file, tokens, t) == file
save_tokens(file, tokens, t) == StampExpiry(tokens, t)

\* refresh_token: the endpoint's answer, or the exception of the POST or of
\* raise_for_status.
RefreshOutcomes(n) ==
    {[kind |-> "return",
      value |-> [access_token |-> n + 1, expires_in |-> l, refresh_token |-> n + 1,
                 expires_at |-> 0]] : l \in Lifetimes}
        \cup {[kind |-> "raise", value |-> NoFile]}

\* One get_token call at the current time.
get_token ==
    LET tokens == load_tokens(token_file, fallback_expires)
    IN  /\ now' = now
        /\ UNCHANGED fallback_expires
        /\ IF is_valid(tokens, now)
           THEN /\ tok' = [returned |-> tokens.access_token, contacted |-> FALSE,
                           exchange |-> "none", at |-> now, flip |-> ~tok.flip]
                /\ UNCHANGED <<token_file, issued>>
           ELSE \E out \in RefreshOutcomes(issued) :
                  IF out.kind = "return"
                  THEN /\ issued < MaxIssued
                       /\ issued' = issued + 1
                       /\ token_file' = save_tokens(token_file, out.value, now)
                       /\ tok' = [returned |-> out.value.access_token,
                                  contacted |-> TRUE, exchange |-> "ok", at |-> now,
                                  flip |-> ~tok.flip]
                  ELSE /\ UNCHANGED <<token_file, issued>>
                       /\ tok' = [returned |->
                                    load_tokens(token_file, fallback_expires).access_token,
                                  contacted |-> TRUE, exchange |-> "failed", at |-> now,
                                  flip |-> ~tok.flip]

\* Time passes between get_token calls.
TokenTick ==
    \E d \in TokenTickSteps :
        /\ now + d <= MaxTokenTime
        /\ now' = now + d
        /\ UNCHANGED tokenVars

-----------------------------------------------------------------------------
(* Transformer, date fields: safe_datetime and the processing time of      *)
(* transform_order. A date stamp is its wall-clock reading and the form of *)
(* its end; readings and durations are in hundredths of an hour.           *)

\* "none": None or a missing key, "empty": "", "bad": text fromisoformat
\* rejects, "naive": no offset, the others: the offset the stamp ends with.
StampForms == {"none", "empty", "bad", "naive", "Z", "-04:00", "-03:00", "-05:00"}
StampTimes == {0, 350}
Stamps == [form : StampForms, t : StampTimes]

\* The offset of an aware stamp from UTC, in hundredths of an hour.
UtcOffset(form) == IF form = "-05:00" THEN -500 ELSE 0

\* A datetime: naive with its wall-clock reading, or aware with its instant.
NoDatetime == [none |-> TRUE, aware |-> FALSE, t |-> 0]
Datetime(aware, t) == [none |-> FALSE, aware |-> aware, t |-> t]

\* safe_datetime: None for a falsy argument and for a ValueError; "Z" becomes
\* "+00:00", a trailing "-04:00" or "-03:00" is cut off.
safe_datetime(stamp) ==
    CASE stamp.form \in {"none", "empty", "bad"} -> NoDatetime
      [] stamp.form \in {"-04:00", "-03:00", "naive"} -> Datetime(FALSE, stamp.t)
      [] OTHER -> Datetime(TRUE, stamp.t - UtcOffset(stamp.form))

Truthy(stamp) == stamp.form \notin {"none", "empty"}

NoHours == [null |-> TRUE, value |-> 0]
Hours(v) == [null |-> FALSE, value |-> v]

\* closed - created: a naive and an aware datetime cannot be subtracted.
Subtract(closed, created) ==
    IF closed.aware # created.aware
    THEN [kind |-> "raise", value |-> NoHours,
          exc |-> [class |-> "TypeError", msg |-> "can't subtract offset-naive and offset-aware datetimes", status |-> 0]]
    ELSE [kind |-> "return", value |-> Hours(closed.t - created.t), exc |-> NoExc]

\* The processing time of transform_order and the order's date_closed.
transform_order(data) ==
    LET created == safe_datetime(data.date_created)
        closed == safe_datetime(data.date_closed)
        processing_time ==
            IF Truthy(data.date_created) /\ Truthy(data.date_closed)
                 /\ ~created.none /\ ~closed.none
            THEN Subtract(closed, created)
            ELSE [kind |-> "return", value |-> NoHours, exc |-> NoExc]
    IN  [kind |-> processing_time.kind, exc |-> processing_time.exc,
         date_created |-> created, date_closed |-> closed,
         processing_time_hours |-> processing_time.value]

NotTransformed ==
    [kind |-> "none", exc |-> NoExc, date_created |-> NoDatetime,
     date_closed |-> NoDatetime, processing_time_hours |-> NoHours]

-----------------------------------------------------------------------------
(* Product enricher: transformers/product_enricher.py *)

MaxItems == 2
Missing == -1                 \* item.get(key) is None: the key is absent or null
NoneItem ==
    [kind |-> "None", id |-> "None", price |-> Missing, original_price |-> Missing,
     views |-> Missing, sold_quantity |-> Missing]
EmptyDict ==
    [kind |-> "dict", id |-> "None", price |-> Missing, original_price |-> Missing,
     views |-> Missing, sold_quantity |-> Missing]
\* None, {} and dicts with an id, with and without prices and traffic figures
RawItems ==
    {NoneItem, EmptyDict}
        \cup {[kind |-> "dict", id |-> id, price |-> p, original_price |-> o,
               views |-> tr.views, sold_quantity |-> tr.sold_quantity] :
                id \in {"A", "B"}, p \in {Missing, 0, 80, 120}, o \in {Missing, 0, 100},
                tr \in {[views |-> Missing, sold_quantity |-> Missing],
                        [views |-> 4, sold_quantity |-> 1]}}
RawItemLists ==
    {[kind |-> "None", items |-> << >>]}
        \cup {[kind |-> "list", items |-> s] : s \in SeqsUpTo(RawItems, MaxItems)}

\* x or y, for a number or None on the left
Or(x, y) == IF x = Missing \/ x = 0 THEN y ELSE x

\* round(n / d * scale), n >= 0 or n < 0, d > 0: the nearest integer to
\* n / d, a tie going to the even one
RoundDiv(n, d) ==
    LET q == n \div d
        r == n % d
    IN  IF 2 * r < d THEN q
        ELSE IF 2 * r > d THEN q + 1
        ELSE IF q % 2 = 0 THEN q ELSE q + 1

\* The body of the for loop for one dict: conversion_rate in 1/10000,
\* discount_percentage in 1/100 of a percent.
EnrichedRecord(item) ==
    LET views == Or(item.views, 0)
        sold == Or(item.sold_quantity, 0)
        current_price == Or(item.price, 0)
        original_price == Or(item.original_price, current_price)
    IN  [item_id |-> item.id,
         current_price |-> current_price,
         original_price |-> original_price,
         sold_quantity |-> sold,
         views |-> views,
         conversion_rate |-> IF views # 0 THEN RoundDiv(sold * 10000, views) ELSE 0,
         discount_percentage |->
            IF original_price # 0
            THEN RoundDiv((original_price - current_price) * 10000, original_price)
            ELSE 0]

\* for item in raw_items: ... enriched.append({...}); item.get on a None
\* entry raises AttributeError.
RECURSIVE EnrichLoop(_, _, _)
EnrichLoop(items, i, acc) ==
    IF i > Len(items)
    THEN [kind |-> "return", value |-> acc, exc |-> NoExc]
    ELSE IF items[i].kind = "None"
         THEN [kind |-> "raise", value |-> << >>,
               exc |-> [class |-> "AttributeError", msg |-> "get", status |-> 0]]
         ELSE EnrichLoop(items, i + 1, Append(acc, EnrichedRecord(items[i])))

\* enrich_items(raw_items); iterating over None raises TypeError.
enrich_items(raw) ==
    IF raw.kind = "None"
    THEN [kind |-> "raise", value |-> << >>,
          exc |-> [class |-> "TypeError", msg |-> "not iterable", status |-> 0]]
    ELSE EnrichLoop(raw.items, 1, << >>)

NotEnriched == [kind |-> "none", value |-> << >>, exc |-> NoExc]

-----------------------------------------------------------------------------
(* Retry wrapper: MercadoLibreETL.safe_api_call *)

max_retries == 3
retry_delay == 1

RequestsClasses == {"HTTPError", "Timeout", "ConnectionError"}

\* What an arbitrary wrapped function can do in one call.
AnyFuncOutcomes ==
    {[kind |-> "return", value |-> "page"]}
        \cup {[kind |-> "raise", exc |-> [class |-> "HTTPError", msg |-> "", status |-> st]] :
                st \in {401, 403, 404, 429, 500, 503}}
        \cup {[kind |-> "raise", exc |-> [class |-> c, msg |-> "", status |-> 0]] : c \in {"Timeout", "ConnectionError"}}
        \cup {[kind |-> "raise", exc |-> BuiltinException("other", 0)]}

\* get_orders: self._req("GET", "/orders/search", params=params)["results"];
\* the {} of a 204 has no "results".
GetOrders(r) ==
    IF r.kind = "return"
    THEN IF r.empty
         THEN [kind |-> "raise", exc |-> [class |-> "KeyError", msg |-> "results", status |-> 0]]
         ELSE [kind |-> "return", value |-> r.value]
    ELSE r

\* What self.client.get_orders can do in one call, for every answer of the
\* network and of the rate check.
GetOrdersOutcomes(bodies) ==
    {GetOrders(Response(net, b)) : net \in NetOutcomes, b \in bodies}
        \cup {[kind |-> "raise", exc |-> BuiltinException("Rate limit exceeded", 0)]}

Linear(n) == n + 1
RECURSIVE Pow2(_)
Pow2(n) == IF n = 0 THEN 1 ELSE 2 * Pow2(n - 1)
Min(a, b) == IF a < b THEN a ELSE b

RetryEverything(exc, attempt) ==
    IF attempt < max_retries - 1
    THEN [retry |-> TRUE, wait |-> retry_delay * Pow2(attempt)]
    ELSE [retry |-> FALSE]

\* The except clauses of one attempt: the wait before the next attempt, or
\* the exception leaving safe_api_call.
Handle(exc, attempt) ==
    IF exc.class = "HTTPError"
    THEN IF exc.status = 429
         THEN [retry |-> TRUE, wait |-> Min(60 * Pow2(attempt), 300)]
         ELSE IF exc.status >= 500 /\ attempt < max_retries - 1
              THEN [retry |-> TRUE, wait |-> retry_delay * Pow2(attempt)]
              ELSE [retry |-> FALSE]
    ELSE IF exc.class \in RequestsClasses
         THEN IF attempt < max_retries - 1
              THEN [retry |-> TRUE, wait |-> retry_delay * Pow2(attempt)]
              ELSE [retry |-> FALSE]
    ELSE [retry |-> FALSE]

\* Every way one safe_api_call invocation can run from the given attempt on,
\* for a function with the given per-call outcomes: what the function did in
\* each call (trace), the waits slept, and what safe_api_call returns or raises.
RECURSIVE SafeApiCallRuns(_, _, _, _)
SafeApiCallRuns(outcomes, attempt, trace, sleeps) ==
    IF attempt >= max_retries
    THEN {[trace |-> trace, sleeps |-> sleeps,
           result |-> [kind |-> "raise", exc |-> BuiltinException("Failed after retries", 0)]]}
    ELSE UNION {
           IF o.kind = "return"
           THEN {[trace |-> Append(trace, o), sleeps |-> sleeps, result |-> o]}
           ELSE LET h == Handle(o.exc, attempt)
                IN  IF h.retry
                    THEN SafeApiCallRuns(outcomes, attempt + 1, Append(trace, o),
                                         Append(sleeps, h.wait))
                    ELSE {[trace |-> Append(trace, o), sleeps |-> sleeps, result |-> o]}
           : o \in outcomes}

safe_api_call(outcomes) == SafeApiCallRuns(outcomes, 0, << >>, << >>)

\* fetch_orders_page: safe_api_call around self.client.get_orders
fetch_orders_page(bodies) == safe_api_call(GetOrdersOutcomes(bodies))

-----------------------------------------------------------------------------
(* Specifications of the loader, the client and the retry wrapper *)

StoreEmpty ==
    /\ orders = {}
    /\ order_items = EmptyBag
    /\ payments = {}
    /\ etl_state = << >>

LoaderIdle ==
    /\ loadResult = "none"
    /\ lastLoad = [id \in OrderIds |-> NoLoad]

ClientIdle ==
    /\ now = 0
    /\ rate = [calls |-> 0, reset |-> 0]
    /\ reqResult = [sent |-> FALSE, out |-> [kind |-> "none"], after_reject |-> FALSE]
    /\ sent_at = << >>

RetryIdle == sac = [func |-> "none", trace |-> << >>, sleeps |-> << >>,
                    result |-> [kind |-> "none"]]

\* One _update_etl_state call: its arguments and whether its commit went through.
Write(status, total, last_order_id, commitOk) ==
    [status |-> status, total_processed |-> total, last_order_id |-> last_order_id,
     committed |-> commitOk]
NoWrite == Write("none", 0, "None", FALSE)
NotFetched == -1              \* slept: no page has been fetched yet
NoCall == [returned |-> -1, contacted |-> FALSE, exchange |-> "none", at |-> 0,
           flip |-> FALSE]

TransformIdle ==
    /\ order_data = [date_created |-> [form |-> "none", t |-> 0],
                     date_closed |-> [form |-> "none", t |-> 0]]
    /\ order_out = NotTransformed

EnrichIdle ==
    /\ raw_items = [kind |-> "list", items |-> << >>]
    /\ enriched = NotEnriched

TokenIdle ==
    /\ token_file = NoFile
    /\ fallback_expires = 0
    /\ issued = 1
    /\ tok = NoCall

RunIdle ==
    /\ pc = "start"
    /\ date_range = [start_date |-> NoDate, end_date |-> NoDate]
    /\ seen_order_ids = {}
    /\ consecutive_empty_calls = 0
    /\ total_fetched = 0
    /\ total_orders = 0
    /\ batch = << >>
    /\ slept = NotFetched
    /\ exit_code = -1
    /\ outcome = "running"
    /\ lastWrite = NoWrite
    /\ prevWrite = NoWrite
    /\ raised = NoExc
    /\ resumed = FALSE
    /\ stored = {}
    /\ emptyRun = 0
    /\ emitted = {}
    /\ initial_total = 0
    /\ emitted_orders = 0

\* One load_batch call with any batch; the commit itself may fail.
LoadCall ==
    /\ \E list \in Batches, commitOk \in BOOLEAN : load_batch(list, commitOk)
    /\ UNCHANGED <<etl_state, clientVars, otherVars, runVars>>

InitLoad ==
    StoreEmpty /\ LoaderIdle /\ ClientIdle /\ RetryIdle /\ TokenIdle /\ TransformIdle /\ EnrichIdle /\ RunIdle
NextLoad == LoadCall
SpecLoad == InitLoad /\ [][NextLoad]_vars

RateRequest == ClientRequest /\ UNCHANGED <<dbVars, etl_state, loadVars, otherVars, runVars>>
RateTick == Tick /\ UNCHANGED <<dbVars, etl_state, loadVars, otherVars, runVars>>

InitRate ==
    StoreEmpty /\ LoaderIdle /\ ClientIdle /\ RetryIdle /\ TokenIdle /\ TransformIdle /\ EnrichIdle /\ RunIdle
NextRate == RateRequest \/ RateTick
SpecRate == InitRate /\ [][NextRate]_vars

\* The same client, with the times of its latest sent requests on record.
LastSent(times) ==
    IF Len(times) > RateLimit + 1 THEN SubSeq(times, Len(times) - RateLimit, Len(times))
    ELSE times
RollRequest ==
    /\ ClientRequest
    /\ sent_at' = IF reqResult'.sent THEN LastSent(Append(sent_at, now)) ELSE sent_at
    /\ UNCHANGED <<dbVars, etl_state, loadVars, sac, tokenVars, transformVars, enrichVars,
                   runVars>>
RollTick ==
    /\ \E d \in RollSteps :
          /\ now + d <= MaxRollTime
          /\ now' = now + d
          /\ UNCHANGED <<rate, reqResult>>
    /\ UNCHANGED <<dbVars, etl_state, loadVars, otherVars, runVars>>
NextRoll == RollRequest \/ RollTick
SpecRoll == InitRate /\ [][NextRoll]_vars

\* One safe_api_call invocation around the orders call of the client.
RetryOrdersCall ==
    /\ \E run \in fetch_orders_page({"page"}) :
          sac' = [func |-> "get_orders", trace |-> run.trace, sleeps |-> run.sleeps,
                  result |-> run.result]
    /\ UNCHANGED <<dbVars, etl_state, loadVars, clientVars, tokenVars, transformVars,
                   enrichVars, sent_at, runVars>>

\* One safe_api_call invocation around an arbitrary function.
RetryAnyCall ==
    /\ \E run \in safe_api_call(AnyFuncOutcomes) :
          sac' = [func |-> "any", trace |-> run.trace, sleeps |-> run.sleeps,
                  result |-> run.result]
    /\ UNCHANGED <<dbVars, etl_state, loadVars, clientVars, tokenVars, transformVars,
                   enrichVars, sent_at, runVars>>

InitRetry ==
    StoreEmpty /\ LoaderIdle /\ ClientIdle /\ RetryIdle /\ TokenIdle /\ TransformIdle /\ EnrichIdle /\ RunIdle
NextRetry == RetryOrdersCall \/ RetryAnyCall
SpecRetry == InitRetry /\ [][NextRetry]_vars

GetToken ==
    get_token /\ UNCHANGED <<dbVars, etl_state, loadVars, rate, reqResult, sac,
                             transformVars, enrichVars, sent_at, runVars>>
TokenClock ==
    TokenTick /\ UNCHANGED <<dbVars, etl_state, loadVars, rate, reqResult, sac,
                             transformVars, enrichVars, sent_at, runVars>>

InitToken ==
    /\ StoreEmpty /\ LoaderIdle /\ ClientIdle /\ RetryIdle /\ TransformIdle /\ EnrichIdle
    /\ RunIdle
    /\ token_file \in {NoFile} \cup CachedTokens
    /\ fallback_expires \in {0, 600}
    /\ issued = 1
    /\ tok = NoCall
NextToken == GetToken \/ TokenClock
SpecToken == InitToken /\ [][NextToken]_vars

\* transform_order is applied to the order.
TransformCall ==
    /\ order_out = NotTransformed
    /\ order_out' = transform_order(order_data)
    /\ UNCHANGED <<dbVars, etl_state, loadVars, clientVars, sac, tokenVars, order_data,
                   enrichVars, sent_at, runVars>>

InitTransform ==
    /\ StoreEmpty /\ LoaderIdle /\ ClientIdle /\ RetryIdle /\ TokenIdle /\ EnrichIdle
    /\ RunIdle
    /\ order_data \in [date_created : Stamps, date_closed : Stamps]
    /\ order_out = NotTransformed
NextTransform == TransformCall
SpecTransform == InitTransform /\ [][NextTransform]_vars

\* enrich_items is applied to the list.
EnrichCall ==
    /\ enriched = NotEnriched
    /\ enriched' = enrich_items(raw_items)
    /\ UNCHANGED <<dbVars, etl_state, loadVars, clientVars, sac, tokenVars, transformVars,
                   raw_items, sent_at, runVars>>

InitEnrich ==
    /\ StoreEmpty /\ LoaderIdle /\ ClientIdle /\ RetryIdle /\ TokenIdle /\ TransformIdle
    /\ RunIdle
    /\ raw_items \in RawItemLists
    /\ enriched = NotEnriched
NextEnrich == EnrichCall
SpecEnrich == InitEnrich /\ [][NextEnrich]_vars

-----------------------------------------------------------------------------
(* State tracker: MercadoLibreETL._update_etl_state *)

NoOrder == "None"             \* last_order_id=None

\* session.query(ETLState).filter_by(seller_id=seller_id).first(), as an index
AlwaysNewRow(tbl, seller) == 0
StateRowIndex(tbl, seller) ==
    LET hits == {i \in DOMAIN tbl : tbl[i].seller_id = seller}
    IN  IF hits = {} THEN 0 ELSE CHOOSE i \in hits : \A j \in hits : i <= j

AssignClearsOrderId(row, offset, total, status, last_order_id) ==
    [row EXCEPT !.last_offset = offset, !.total_processed = total, !.status = status,
                !.last_order_id = last_order_id]
AssignKeepsOrderId(row, offset, total, status, last_order_id) ==
    [row EXCEPT !.last_offset = offset, !.total_processed = total, !.status = status]

\* The assignments of _update_etl_state on the row it found or created.
AssignState(row, offset, total, status, last_order_id) ==
    [row EXCEPT !.last_offset = offset,
                !.total_processed = total,
                !.status = status,
                !.last_order_id = IF last_order_id # NoOrder THEN last_order_id ELSE @]

\* _update_etl_state without its rollback: the assigned values stay.
UpdateWithoutRollback(tbl, seller, offset, total, status, last_order_id, commitOk) ==
    LET i == StateRowIndex(tbl, seller)
        fresh == [seller_id |-> seller, last_offset |-> 0, total_processed |-> 0,
                  status |-> "running", last_order_id |-> NoOrder]
    IN  IF i = 0
        THEN Append(tbl, AssignState(fresh, offset, total, status, last_order_id))
        ELSE [tbl EXCEPT ![i] = AssignState(@, offset, total, status, last_order_id)]

\* _update_etl_state: the table afterwards; a commit that fails is rolled back.
UpdateEtlState(tbl, seller, offset, total, status, last_order_id, commitOk) ==
    LET i == StateRowIndex(tbl, seller)
        fresh == [seller_id |-> seller, last_offset |-> 0, total_processed |-> 0,
                  status |-> "running", last_order_id |-> NoOrder]
    IN  IF ~commitOk THEN tbl
        ELSE IF i = 0
             THEN Append(tbl, AssignState(fresh, offset, total, status, last_order_id))
             ELSE [tbl EXCEPT ![i] = AssignState(@, offset, total, status, last_order_id)]

-----------------------------------------------------------------------------
(* Fetcher: MercadoLibreETL.fetch_all_orders, _filter_orders_by_date *)

MaxPage == 2                  \* orders per page (batch_size)
max_empty_calls == 3
inter_page_delay == 500       \* time.sleep(0.5), in ms

\* The orders the marketplace holds for the seller: o1 and o2 are well formed,
\* o3 lacks a field transform_order requires, o4 carries a malformed date stamp.
Catalog ==
    {[id |-> "o1", date_created |-> "d1", complete |-> TRUE,
      items |-> <<"i1">>, payments |-> <<"p1">>],
     [id |-> "o2", date_created |-> "d2", complete |-> TRUE,
      items |-> << >>, payments |-> << >>],
     [id |-> "o3", date_created |-> "d2", complete |-> FALSE,
      items |-> << >>, payments |-> << >>],
     [id |-> "o4", date_created |-> "bad", complete |-> TRUE,
      items |-> << >>, payments |-> << >>]}

Pages == SeqsUpTo(Catalog, MaxPage)

DateRanges ==
    {[start_date |-> NoDate, end_date |-> NoDate],
     [start_date |-> 2, end_date |-> NoDate],
     [start_date |-> NoDate, end_date |-> 1]}

\* datetime.fromisoformat of a date stamp: the day, NoDate for a ValueError.
ParseDate(stamp) ==
    CASE stamp = "d1" -> 1
      [] stamp = "d2" -> 2
      [] OTHER -> NoDate

Ids(list) == {list[i].id : i \in DOMAIN list}

\* new_orders = [order for order in orders if order["id"] not in seen_order_ids]
AllOrders(page, seen) == page
NewOrders(page, seen) == SelectSeq(page, LAMBDA o : o.id \notin seen)

\* for order in list: seen_order_ids.add(order["id"])
MarkNothing(seen, list) == seen
MarkSeen(seen, list) == seen \cup Ids(list)

\* consecutive_empty_calls = 0
KeepEmptyCalls(n) == n
ResetEmptyCalls(n) == 0

\* The range test of _filter_orders_by_date on one parsed date.
Include(d, range) ==
    /\ range.start_date = NoDate \/ ~(d < range.start_date)
    /\ range.end_date = NoDate \/ ~(d > range.end_date)

\* _filter_orders_by_date: the orders within the range; raises when a date
\* stamp does not parse. Without a range nothing is parsed.
RECURSIVE FilterLoop(_, _)
FilterLoop(list, range) ==
    IF list = << >> THEN [raised |-> FALSE, out |-> << >>]
    ELSE LET d == ParseDate(Head(list).date_created)
             rest == FilterLoop(Tail(list), range)
         IN  IF d = NoDate \/ rest.raised
             THEN [raised |-> TRUE, out |-> << >>]
             ELSE [raised |-> FALSE,
                   out |-> IF Include(d, range) THEN <<Head(list)>> \o rest.out
                           ELSE rest.out]

FilterOrdersByDate(list, range) ==
    IF range.start_date = NoDate /\ range.end_date = NoDate
    THEN [raised |-> FALSE, out |-> list]
    ELSE FilterLoop(list, range)

\* The body of fetch_all_orders' loop from the fetched page to its continue,
\* its yield or the exception of the date filter.
ProcessPage(page, seen, empty_calls, range) ==
    IF page = << >>
    THEN [kind |-> "continue", seen |-> seen, empty_calls |-> empty_calls + 1,
          batch |-> << >>]
    ELSE LET new == NewOrders(page, seen)
         IN  IF new = << >>
             THEN [kind |-> "continue", seen |-> MarkSeen(seen, page),
                   empty_calls |-> empty_calls + 1, batch |-> << >>]
             ELSE LET f == FilterOrdersByDate(new, range)
                  IN  IF f.raised
                      THEN [kind |-> "raise", seen |-> seen,
                            empty_calls |-> ResetEmptyCalls(empty_calls), batch |-> << >>]
                      ELSE IF f.out = << >>
                      THEN [kind |-> "continue", seen |-> MarkSeen(seen, new),
                            empty_calls |-> ResetEmptyCalls(empty_calls), batch |-> << >>]
                      ELSE [kind |-> "yield", seen |-> MarkSeen(seen, f.out),
                            empty_calls |-> ResetEmptyCalls(empty_calls), batch |-> f.out]

-----------------------------------------------------------------------------
(* Transformer: MercadoLibreETL.transform_order *)

\* safe_datetime: None for a stamp that does not parse.
SafeDatetime(stamp) == ParseDate(stamp)

\* transform_order on an order that has every required field.
TransformOrder(raw) ==
    [order |-> [id |-> raw.id, seller_id |-> Seller, status |-> "paid",
                date_created |-> SafeDatetime(raw.date_created)],
     items |-> raw.items, payments |-> raw.payments]

\* run_pipeline's transform loop: an order whose transformation raises is skipped.
RECURSIVE TransformUntilBad(_)
TransformUntilBad(list) ==
    IF list = << >> THEN << >>
    ELSE IF Head(list).complete
         THEN <<TransformOrder(Head(list))>> \o TransformUntilBad(Tail(list))
         ELSE << >>

RECURSIVE TransformBatch(_)
TransformBatch(list) ==
    IF list = << >> THEN << >>
    ELSE IF Head(list).complete
         THEN <<TransformOrder(Head(list))>> \o TransformBatch(Tail(list))
         ELSE TransformBatch(Tail(list))

-----------------------------------------------------------------------------
(* Orchestrator: main, MercadoLibreETL.run_pipeline *)

\* What earlier runs left behind: nothing, or order o1 and a state row, next
\* to an order and a state row of another seller.
OtherSeller == "999"
OtherOrder == [order |-> [id |-> "o9", seller_id |-> OtherSeller, status |-> "paid",
                          date_created |-> 1],
               items |-> << >>, payments |-> << >>]

PriorRuns == {"none", "paused", "completed", "failed", "running"}

PriorStore(prior) ==
    IF prior = "none" THEN [orders |-> {}, order_items |-> EmptyBag, payments |-> {}]
    ELSE LoadBatchResult([orders |-> {}, order_items |-> EmptyBag, payments |-> {}],
                         <<TransformOrder(CHOOSE o \in Catalog : o.id = "o1"), OtherOrder>>,
                         TRUE).db

\* The interrupted run's state row carries total_processed 0 (main writes 0).
PriorState(prior) ==
    IF prior = "none" THEN << >>
    ELSE <<[seller_id |-> OtherSeller, last_offset |-> 0, total_processed |-> 2,
            status |-> "paused", last_order_id |-> "o9"],
           [seller_id |-> Seller, last_offset |-> 0,
            total_processed |-> IF prior = "paused" THEN 0 ELSE 1,
            status |-> prior, last_order_id |-> "o1"]>>

Init ==
    /\ \E prior \in PriorRuns :
          /\ orders = PriorStore(prior).orders
          /\ order_items = PriorStore(prior).order_items
          /\ payments = PriorStore(prior).payments
          /\ etl_state = PriorState(prior)
          /\ lastLoad = [id \in OrderIds |->
                           IF prior # "none" /\ id = "o1"
                           THEN TransformOrder(CHOOSE o \in Catalog : o.id = "o1")
                           ELSE NoLoad]
    /\ loadResult = "none"
    /\ ClientIdle /\ RetryIdle /\ TokenIdle /\ TransformIdle /\ EnrichIdle
    /\ pc = "start"
    /\ date_range \in DateRanges
    /\ seen_order_ids = {}
    /\ consecutive_empty_calls = 0
    /\ total_fetched = 0
    /\ total_orders = 0
    /\ batch = << >>
    /\ slept = NotFetched
    /\ exit_code = -1
    /\ outcome = "running"
    /\ lastWrite = NoWrite
    /\ prevWrite = NoWrite
    /\ raised = NoExc
    /\ resumed = FALSE
    /\ stored = {}
    /\ emptyRun = 0
    /\ emitted = {}
    /\ initial_total = 0
    /\ emitted_orders = 0

\* The process ends: main returns (0) or calls sys.exit(1).
Exit(code, how) ==
    /\ pc' = "exited"
    /\ exit_code' = code
    /\ outcome' = how

\* The exceptions that end a run besides those of the orders call.
InvalidIsoformat == [class |-> "ValueError", msg |-> "Invalid isoformat string", status |-> 0]
LoadError == [class |-> "SQLAlchemyError", msg |-> "", status |-> 0]
KeyboardInterrupt == [class |-> "KeyboardInterrupt", msg |-> "", status |-> 0]

\* The status main writes when the operator interrupts the run.
StatusFailedOnInterrupt == "failed"
StatusOnInterrupt == "paused"

\* The status run_pipeline writes after the fetch sequence has ended.
StatusLeftRunning == "running"
StatusAfterLoop == "completed"

\* The status run_pipeline writes when an exception ends the run.
StatusErrorOnFailure == "error"
StatusOnFailure == "failed"

\* run_pipeline's except clause: the "failed" write, then main's sys.exit(1).
PipelineFailed(tbl, before, exc, how, commitOk) ==
    /\ etl_state' = UpdateEtlState(tbl, Seller, 0, total_orders, StatusOnFailure, NoOrder,
                                   commitOk)
    /\ lastWrite' = Write(StatusOnFailure, total_orders, NoOrder, commitOk)
    /\ prevWrite' = before
    /\ raised' = exc
    /\ Exit(1, how)

\* The status fetch_all_orders writes when an exception ends its loop.
StatusFailedOnFetchError == "failed"
StatusOnFetchError == "error"

\* fetch_all_orders' except clause: the "error" write, then the exception
\* reaches run_pipeline's except clause.
FetchFailed(exc, ok1, ok2) ==
    PipelineFailed(UpdateEtlState(etl_state, Seller, 0, total_fetched, StatusOnFetchError,
                                  NoOrder, ok1),
                   Write(StatusOnFetchError, total_fetched, NoOrder, ok1),
                   exc, "fetch_error", ok2)

\* The ids of the Order rows stored for a seller.
AnySellerIds(seller) == {r.id : r \in orders}
StoredIds(seller) == {r.id : r \in {x \in orders : x.seller_id = seller}}

\* main calls run_pipeline: initialize_client, then the fetcher reads the
\* seller's state row and seeds its total and its seen ids when it says "paused".
Start ==
    /\ pc = "start"
    /\ \E clientOk \in BOOLEAN, commitOk \in BOOLEAN :
          IF ~clientOk
          THEN /\ PipelineFailed(etl_state, lastWrite,
                                 BuiltinException("initialize_client", 0),
                                 "init_error", commitOk)
               /\ UNCHANGED <<fetchVars, resumed, stored, initial_total>>
          ELSE LET i == StateRowIndex(etl_state, Seller)
                   resume == i # 0 /\ etl_state[i].status = "paused"
               IN  /\ total_fetched' = IF resume THEN etl_state[i].total_processed ELSE 0
                   /\ seen_order_ids' =
                        IF resume THEN StoredIds(Seller) ELSE {}
                   /\ resumed' = resume
                   /\ initial_total' = (IF resume THEN etl_state[i].total_processed ELSE 0)
                   /\ stored' = {r.id : r \in {x \in orders : x.seller_id = Seller}}
                   /\ pc' = "fetch"
                   /\ UNCHANGED <<etl_state, lastWrite, prevWrite, raised, exit_code,
                                  outcome, consecutive_empty_calls, batch, slept>>
    /\ UNCHANGED <<dbVars, loadVars, clientVars, otherVars, date_range, total_orders,
                   emptyRun, emitted, emitted_orders>>

\* orders = self.fetch_orders_page(...): the page returned or the exception raised
FetchOutcomes == {run.result : run \in fetch_orders_page(Pages)}

\* One iteration of the fetcher's while loop, up to its continue, its yield or
\* the exception that ends the run.
FetchPage ==
    /\ pc = "fetch"
    /\ consecutive_empty_calls < max_empty_calls
    /\ \E result \in FetchOutcomes :
          IF result.kind = "raise"
          THEN /\ \E ok1 \in BOOLEAN, ok2 \in BOOLEAN :
                     FetchFailed(result.exc, ok1, ok2)
               /\ UNCHANGED <<fetchVars, emptyRun, emitted, emitted_orders>>
          ELSE LET page == result.value
                   r == ProcessPage(page, seen_order_ids, consecutive_empty_calls,
                                    date_range)
               IN  /\ emptyRun' = IF Ids(page) \subseteq seen_order_ids
                                  THEN emptyRun + 1 ELSE 0
                   /\ seen_order_ids' = r.seen
                   /\ consecutive_empty_calls' = r.empty_calls
                   /\ batch' = r.batch
                   /\ slept' = 0
                   /\ emitted' = emitted \cup Ids(r.batch)
                   /\ emitted_orders' = emitted_orders + Len(r.batch)
                   /\ UNCHANGED total_fetched
                   /\ IF r.kind = "raise"
                      THEN \E ok1 \in BOOLEAN, ok2 \in BOOLEAN :
                             FetchFailed(InvalidIsoformat, ok1, ok2)
                      ELSE /\ pc' = IF r.kind = "yield" THEN "yielded" ELSE "fetch"
                           /\ UNCHANGED <<etl_state, lastWrite, prevWrite, raised,
                                          exit_code, outcome>>
    /\ UNCHANGED <<dbVars, loadVars, clientVars, otherVars, date_range, total_orders, resumed, stored, initial_total>>

\* run_pipeline's loop body on the emitted batch: transform, then load_batch.
TransformLoad ==
    /\ pc = "yielded"
    /\ LET transformed == TransformBatch(batch)
       IN  IF transformed = << >>
           THEN /\ pc' = "loaded"
                /\ UNCHANGED <<dbVars, loadVars, etl_state, total_orders, lastWrite,
                               prevWrite, raised, exit_code, outcome>>
           ELSE \E commitOk \in BOOLEAN :
                  /\ load_batch(transformed, commitOk)
                  /\ IF LoadBatchResult(Db, transformed, commitOk).raised
                     THEN /\ \E ok \in BOOLEAN :
                                PipelineFailed(etl_state, lastWrite, LoadError,
                                               "load_error", ok)
                          /\ UNCHANGED total_orders
                     ELSE /\ total_orders' = total_orders + Len(transformed)
                          /\ pc' = "loaded"
                          /\ UNCHANGED <<etl_state, lastWrite, prevWrite, raised,
                                         exit_code, outcome>>
    /\ UNCHANGED <<clientVars, otherVars, date_range, fetchVars, resumed, stored, initial_total, emptyRun, emitted, emitted_orders>>

\* The fetcher resumes after its yield: the running total and the checkpoint.
Checkpoint ==
    /\ pc = "loaded"
    /\ total_fetched' = total_fetched + Len(batch)
    /\ \E commitOk \in BOOLEAN :
          /\ etl_state' = UpdateEtlState(etl_state, Seller, 0, total_fetched + Len(batch),
                                         "running", batch[Len(batch)].id, commitOk)
          /\ lastWrite' = Write("running", total_fetched + Len(batch),
                                batch[Len(batch)].id, commitOk)
    /\ prevWrite' = lastWrite
    /\ batch' = << >>
    /\ slept' = slept + inter_page_delay
    /\ pc' = "fetch"
    /\ UNCHANGED <<dbVars, loadVars, clientVars, otherVars, date_range, seen_order_ids,
                   consecutive_empty_calls, total_orders, exit_code, outcome,
                   raised, resumed, stored, initial_total,
                   emptyRun, emitted, emitted_orders>>

\* The while loop ends: run_pipeline writes its final status and main returns.
EndOfFetch ==
    /\ pc = "fetch"
    /\ ~(consecutive_empty_calls < max_empty_calls)
    /\ \E commitOk \in BOOLEAN :
          /\ etl_state' = UpdateEtlState(etl_state, Seller, 0, total_orders,
                                         StatusAfterLoop, NoOrder, commitOk)
          /\ lastWrite' = Write(StatusAfterLoop, total_orders, NoOrder, commitOk)
    /\ prevWrite' = lastWrite
    /\ Exit(0, "exhausted")
    /\ UNCHANGED <<dbVars, loadVars, clientVars, otherVars, date_range, fetchVars,
                   total_orders, raised, resumed, stored, initial_total,
                   emptyRun, emitted, emitted_orders>>

\* KeyboardInterrupt, at any point of the run: main's except clause.
Interrupt ==
    /\ pc # "exited"
    /\ \E commitOk \in BOOLEAN :
          /\ etl_state' = UpdateEtlState(etl_state, Seller, 0, 0, StatusOnInterrupt,
                                         NoOrder, commitOk)
          /\ lastWrite' = Write(StatusOnInterrupt, 0, NoOrder, commitOk)
    /\ prevWrite' = lastWrite
    /\ raised' = KeyboardInterrupt
    /\ Exit(0, "interrupted")
    /\ UNCHANGED <<dbVars, loadVars, clientVars, otherVars, date_range, fetchVars,
                   total_orders, resumed, stored, initial_total,
                   emptyRun, emitted, emitted_orders>>

Next == Start \/ FetchPage \/ TransformLoad \/ Checkpoint \/ EndOfFetch \/ Interrupt
Spec == Init /\ [][Next]_vars

\* The run keeps going: the interpreter executes the next step of main unless
\* the operator interrupts it first.
SpecLive == Spec /\ WF_vars(Start \/ FetchPage \/ TransformLoad \/ Checkpoint \/ EndOfFetch)

-----------------------------------------------------------------------------
(* Claims about the fetcher and the orchestrator *)

\* C1: the fetcher's counter is the number of consecutive fetched pages that
\* held no unseen id (a page with an unseen id resets it to zero), the fetch
\* sequence ends normally only with three such pages in a row, and after
\* three such pages no further page is requested.
C1_StopsAfterThreeEmptyPages ==
    /\ [](consecutive_empty_calls = emptyRun)
    /\ [](emptyRun <= max_empty_calls)
    /\ [](outcome = "exhausted" => emptyRun = max_empty_calls)
    /\ [][emptyRun >= max_empty_calls
            => (emptyRun' = emptyRun /\ seen_order_ids' = seen_order_ids
                /\ outcome' # "fetch_error")]_vars

\* The run ended normally after pages with new orders had reset the count.
C1_Witness ==
    /\ outcome = "exhausted"
    /\ emptyRun = 3
    /\ emitted # {}
    /\ Cardinality(seen_order_ids) >= 2

\* C2: a batch never holds an id that was in the seen-id set when its page
\* was fetched, nor an id of a batch emitted earlier in the run.
C2_SeenNeverEmitted ==
    [][pc' = "yielded" => (Ids(batch') \cap seen_order_ids = {}
                           /\ Ids(batch') \cap emitted = {})]_vars

\* A second batch is emitted while ids are already seen.
C2_Witness ==
    /\ pc = "yielded"
    /\ seen_order_ids \ Ids(batch) # {}
    /\ emitted \ Ids(batch) # {}

\* C10: a run whose fetch sequence ended normally has "completed" as its last
\* state write and exit code zero.
C10_CompletedAndExitZero ==
    outcome = "exhausted" => (lastWrite.status = "completed" /\ exit_code = 0)

C10_Witness ==
    /\ outcome = "exhausted" /\ pc = "exited"
    /\ total_orders >= 1
    /\ lastWrite = Write("completed", total_orders, NoOrder, TRUE)

\* The seller's persisted state row holds this status and this total.
RowHolds(status, total) ==
    \E i \in DOMAIN etl_state :
        /\ etl_state[i].seller_id = Seller
        /\ etl_state[i].status = status
        /\ etl_state[i].total_processed = total

\* C11 as stated: when load_batch raises during a run, the state row the run
\* leaves has status "failed" and the number of orders loaded before the
\* failure, no further page is fetched and the process exits non-zero.
C11_FailedRowLeft ==
    outcome = "load_error" =>
        (RowHolds("failed", total_orders) /\ pc = "exited" /\ exit_code = 1)

\* C11, amended: when load_batch raises during a run, the last state write of
\* the run carries status "failed" and the number of orders loaded before the
\* failure, and the persisted row holds both whenever that write's commit went
\* through; no further page is fetched and the process exits non-zero.
C11_FailedWriteLast ==
    outcome = "load_error" =>
        /\ loadResult = "raised"
        /\ lastWrite.status = "failed" /\ lastWrite.total_processed = total_orders
        /\ lastWrite.committed => RowHolds("failed", total_orders)
        /\ pc = "exited" /\ exit_code = 1
        /\ ~ENABLED FetchPage

\* A second batch fails to load after a first one was loaded.
C11_Witness ==
    /\ outcome = "load_error" /\ loadResult = "raised"
    /\ total_orders >= 1
    /\ lastWrite.committed
    /\ RowHolds("failed", total_orders)

\* The seller's persisted state row holds this status.
RowStatus(status) ==
    \E i \in DOMAIN etl_state :
        etl_state[i].seller_id = Seller /\ etl_state[i].status = status

\* C12: when a run ends because the fetcher itself raised, the state row left
\* behind once run_pipeline has finished has status "error".
C12_ErrorRowLeft ==
    (outcome = "fetch_error" /\ pc = "exited") => RowStatus("error")

\* What the orders call and the date filter can raise inside the fetcher's loop.
FetchExceptions ==
    {run.result.exc : run \in {r \in fetch_orders_page(Pages) : r.result.kind = "raise"}}
        \cup {InvalidIsoformat}

\* C13: when the fetcher's loop raises, the state write before run_pipeline's
\* own carries status "error" and the running total reached so far, the
\* exception that leaves is the one that was raised, and no further page is
\* requested.
C13_ErrorWriteThenReraise ==
    outcome = "fetch_error" =>
        /\ prevWrite.status = "error"
        /\ prevWrite.total_processed = total_fetched
        /\ prevWrite.committed => (RowStatus("error") \/ lastWrite.committed)
        /\ raised \in FetchExceptions
        /\ pc = "exited"
        /\ ~ENABLED FetchPage

\* A page fetch is refused after a batch was processed and checkpointed.
C13_Witness ==
    /\ outcome = "fetch_error"
    /\ total_fetched >= 1
    /\ prevWrite = Write("error", total_fetched, NoOrder, TRUE)
    /\ raised = BuiltinException("Forbidden", 403)

\* C14 as stated: "paused" is written exactly when the operator interrupts the
\* run: an interruption leaves "paused" as the final status of the seller's
\* state row, and no other path writes "paused".
C14_PausedRowIffInterrupted ==
    /\ outcome = "interrupted" => RowStatus("paused")
    /\ (lastWrite.status = "paused" \/ prevWrite.status = "paused")
          => outcome = "interrupted"

\* C14, amended: an interruption at any point of a run makes a "paused" write
\* the last state write of the run, which leaves "paused" in the seller's row
\* whenever its commit goes through; no other path writes "paused".
C14_PausedWriteIffInterrupted ==
    /\ outcome = "interrupted" =>
          /\ lastWrite.status = "paused"
          /\ lastWrite.committed => RowStatus("paused")
          /\ pc = "exited"
    /\ (lastWrite.status = "paused" \/ prevWrite.status = "paused")
          => outcome = "interrupted"

\* The run is interrupted after it has loaded orders.
C14_Witness ==
    /\ outcome = "interrupted" /\ raised = KeyboardInterrupt
    /\ total_orders >= 1
    /\ lastWrite.committed
    /\ RowHolds("paused", 0)

SellerRows == {i \in DOMAIN etl_state : etl_state[i].seller_id = Seller}

\* C21 as stated: once a state write has been made for the seller, etl_state
\* holds exactly one row for that seller.
C21_ExactlyOneRow ==
    lastWrite # NoWrite => Cardinality(SellerRows) = 1

\* C21, amended: etl_state never holds more than one row for the seller; the
\* row is created by the first write whose commit goes through, every later
\* write updates that row, no step removes a row or touches another seller's.
C21_OneRowOnceCommitted ==
    /\ [](Cardinality(SellerRows) <= 1)
    /\ [][/\ Len(etl_state') >= Len(etl_state)
           /\ \A i \in DOMAIN etl_state :
                 /\ etl_state'[i].seller_id = etl_state[i].seller_id
                 /\ etl_state[i].seller_id # Seller => etl_state'[i] = etl_state[i]
           /\ (lastWrite' # lastWrite
                /\ (lastWrite'.committed
                    \/ (outcome' = "fetch_error" /\ prevWrite'.committed)))
                 => Cardinality(SellerRows') = 1]_vars

\* The row a first checkpoint created was updated by the next one.
C21_Witness ==
    /\ Len(etl_state) = 1 /\ Cardinality(SellerRows) = 1
    /\ prevWrite.status = "running" /\ prevWrite.committed
    /\ lastWrite.status = "running" /\ lastWrite.committed
    /\ RowHolds("running", lastWrite.total_processed)
    /\ lastWrite.total_processed > prevWrite.total_processed

\* C24: for every sequence of page contents and every date filter the
\* fetcher terminates, and each processed page that does not count towards the
\* three-empty limit adds at least one new id to the seen-id set.
C24_FetcherTerminates ==
    /\ <>(pc = "exited")
    /\ [][(/\ pc = "fetch"
           /\ pc' \in {"fetch", "yielded"}
           /\ consecutive_empty_calls' # consecutive_empty_calls + 1)
              => /\ seen_order_ids \subseteq seen_order_ids'
                 /\ seen_order_ids' # seen_order_ids]_vars

C24_Witness ==
    /\ pc = "exited"
    /\ outcome = "exhausted"
    /\ date_range.start_date # NoDate
    /\ emitted # {}
    /\ ~(seen_order_ids \subseteq emitted \cup stored)

\* The step is the fetcher processing this page up to its continue or yield.
ProcessedPage(page) ==
    LET r == ProcessPage(page, seen_order_ids, consecutive_empty_calls, date_range)
    IN  /\ pc = "fetch"
        /\ consecutive_empty_calls < max_empty_calls
        /\ r.kind # "raise"
        /\ pc' = (IF r.kind = "yield" THEN "yielded" ELSE "fetch")
        /\ seen_order_ids' = r.seen
        /\ consecutive_empty_calls' = r.empty_calls
        /\ batch' = r.batch

\* C25: once the fetcher has processed a page that contains new orders, every
\* new order id of that page is in the seen-id set, the date-rejected ones
\* included, also when other orders of the page passed the filter.
C25_NewIdsAllSeen ==
    [][\A page \in Pages :
          (ProcessedPage(page) /\ NewOrders(page, seen_order_ids) # << >>)
             => Ids(NewOrders(page, seen_order_ids)) \subseteq seen_order_ids']_vars

\* C26: from the start of run_pipeline until its terminal write the stored
\* status of the seller is "running", also before the first batch and also
\* when an earlier run left a terminal status behind.
C26_RunningWhileInProgress ==
    pc \in {"fetch", "yielded", "loaded"} => RowStatus("running")

\* The seller's row after the step says "running" with the running total the
\* fetcher began with plus the orders emitted so far and the id of the last
\* order of the batch just consumed.
CheckpointRow ==
    \E i \in DOMAIN etl_state' :
        /\ etl_state'[i].seller_id = Seller
        /\ etl_state'[i].status = "running"
        /\ etl_state'[i].total_processed = initial_total + emitted_orders
        /\ etl_state'[i].last_order_id = batch[Len(batch)].id

\* C27 as stated: after each emitted batch has been consumed the seller's row
\* holds status "running", the initial running total plus the orders emitted
\* so far, and the id of the last order of that batch.
C27_CheckpointPersisted ==
    [][(pc = "loaded" /\ pc' = "fetch") => CheckpointRow]_vars

\* C27, amended: after each emitted batch has been consumed the fetcher writes
\* status "running", the initial running total plus the orders emitted so far
\* and the id of the last order of that batch; the row holds them whenever the
\* write's commit succeeds, and is left as it was when the commit fails.
C27_CheckpointWritten ==
    [][(pc = "loaded" /\ pc' = "fetch") =>
          /\ lastWrite'.status = "running"
          /\ lastWrite'.total_processed = initial_total + emitted_orders
          /\ lastWrite'.last_order_id = batch[Len(batch)].id
          /\ IF lastWrite'.committed THEN CheckpointRow ELSE etl_state' = etl_state]_vars

\* The checkpoint of a second batch has been committed; a page held the same
\* order twice, so that more orders than ids have been emitted.
C27_Witness ==
    /\ pc = "fetch"
    /\ prevWrite.status = "running"
    /\ lastWrite.status = "running" /\ lastWrite.committed
    /\ emitted_orders > Cardinality(emitted)
    /\ \E i \in DOMAIN etl_state :
          /\ etl_state[i].seller_id = Seller
          /\ etl_state[i].status = "running"
          /\ etl_state[i].total_processed = emitted_orders
          /\ etl_state[i].last_order_id # "o1"

\* C28: with a date filter active, an order whose date_created does not parse
\* is skipped by the filter: it is never emitted, and the run neither fails
\* because of it nor writes an error state.
C28_MalformedDateSkipped ==
    (date_range.start_date # NoDate \/ date_range.end_date # NoDate) =>
        /\ \A o \in Catalog : ParseDate(o.date_created) = NoDate => o.id \notin emitted
        /\ raised # InvalidIsoformat
        /\ outcome = "fetch_error" => raised.class # "ValueError"

\* A page is fetched: the orders call of the fetcher's loop returns or raises.
PageFetched ==
    /\ pc = "fetch"
    /\ consecutive_empty_calls < max_empty_calls
    /\ outcome' # "interrupted"

\* C29: between any two consecutive page fetches the fetcher waits the
\* inter-page delay - also after an empty page, a page without new orders and
\* a page whose new orders the date filter all rejected.
C29_DelayBetweenFetches ==
    [][(PageFetched /\ slept # NotFetched) => slept >= inter_page_delay]_vars

\* C32: a run resumed from "paused" seeds its running total with the number of
\* orders ingested for the seller before the pause, and the total_processed
\* left by the resumed run counts the orders of both runs together.
C32_ResumeCountsEarlierOrders ==
    /\ resumed => initial_total = Cardinality(stored)
    /\ (resumed /\ outcome = "exhausted" /\ lastWrite.committed)
          => RowHolds("completed", Cardinality(stored) + total_orders)

\* C33: within one run the total_processed values persisted by successive
\* state writes never decrease: a "running", "completed", "failed" or "error"
\* write that follows a "running" checkpoint stores at least the checkpoint's
\* total.
C33_TotalNeverDecreases ==
    [][(/\ lastWrite.status = "running" /\ lastWrite.committed
        /\ lastWrite' # lastWrite
        /\ lastWrite'.status \in {"running", "completed", "failed", "error"})
          => /\ lastWrite'.committed
                   => lastWrite'.total_processed >= lastWrite.total_processed
             /\ (prevWrite'.status = "error" /\ prevWrite'.committed)
                   => prevWrite'.total_processed >= lastWrite.total_processed]_vars

\* The load of the batch the fetcher is suspended on has been committed.
BatchLoadCommitted ==
    /\ TransformBatch(batch) # << >>
    /\ loadResult = "ok"
    /\ \A i \in DOMAIN TransformBatch(batch) : TransformBatch(batch)[i].order \in orders

\* A run that ends while the fetcher is suspended on a batch writes no
\* checkpoint for it: the step's writes carry no last_order_id and the stored
\* last_order_id stays what it was.
NoCheckpointAtExit ==
    (pc \in {"yielded", "loaded"} /\ pc' = "exited") =>
        /\ lastWrite'.status # "running" /\ lastWrite'.last_order_id = NoOrder
        /\ Len(etl_state') >= Len(etl_state)
        /\ \A i \in DOMAIN etl_state :
              etl_state'[i].last_order_id = etl_state[i].last_order_id
        /\ \A i \in DOMAIN etl_state' \ DOMAIN etl_state :
              etl_state'[i].last_order_id = NoOrder

\* "running" is written by the checkpoint only, once the caller has come back
\* for the next batch.
RunningOnlyAtCheckpoint ==
    (lastWrite' # lastWrite /\ lastWrite'.status = "running") =>
        (pc = "loaded" /\ lastWrite'.last_order_id = batch[Len(batch)].id)

WritesWithoutOrderId ==
    /\ lastWrite' # lastWrite
    /\ lastWrite'.last_order_id = NoOrder
    /\ outcome' = "fetch_error" => prevWrite'.last_order_id = NoOrder

\* The stored last_order_id of every row is what it was; a row the step
\* created has none.
OrderIdKept ==
    /\ Len(etl_state') >= Len(etl_state)
    /\ \A i \in DOMAIN etl_state :
          etl_state'[i].last_order_id = etl_state[i].last_order_id
    /\ \A i \in DOMAIN etl_state' \ DOMAIN etl_state :
          etl_state'[i].last_order_id = NoOrder

\* Whatever is written, the seller's row has last_offset 0 afterwards.
OffsetZero ==
    lastWrite' # lastWrite =>
        \A i \in DOMAIN etl_state' :
            etl_state'[i].seller_id = Seller => etl_state'[i].last_offset = 0

\* The step ends a run whose last state write so far was a checkpoint.
EndsAfterCheckpoint == pc # "exited" /\ pc' = "exited" /\ lastWrite.status = "running"

RowNamesLastCheckpoint ==
    \E i \in DOMAIN etl_state' :
        /\ etl_state'[i].seller_id = Seller
        /\ etl_state'[i].last_order_id = lastWrite.last_order_id

\* C35 as stated: a state write that passes no last_order_id leaves the stored
\* last_order_id unchanged, so that after a run ends the row names the last
\* order of the last checkpointed batch; every state write sets last_offset
\* to 0.
C35_RowKeepsLastCheckpoint ==
    [][/\ WritesWithoutOrderId => OrderIdKept
       /\ OffsetZero
       /\ EndsAfterCheckpoint => RowNamesLastCheckpoint]_vars

\* C35, amended: a state write that passes no last_order_id leaves the stored
\* last_order_id unchanged, so that after a run ends the row names the last
\* order of the last checkpointed batch whose write was committed; every
\* state write that commits sets last_offset to 0.
C35_RowKeepsLastCommittedCheckpoint ==
    [][/\ WritesWithoutOrderId => OrderIdKept
       /\ OffsetZero
       /\ (EndsAfterCheckpoint /\ lastWrite.committed) => RowNamesLastCheckpoint
       /\ (EndsAfterCheckpoint /\ ~lastWrite.committed) => OrderIdKept]_vars

\* The run has ended after a committed checkpoint and a committed "completed"
\* write: the row says "completed" and still names the checkpoint's order.
C35_Witness ==
    /\ pc = "exited" /\ outcome = "exhausted"
    /\ lastWrite.status = "completed" /\ lastWrite.committed
    /\ prevWrite.status = "running" /\ prevWrite.committed
    /\ prevWrite.last_order_id = "o2"
    /\ \E i \in DOMAIN etl_state :
          /\ etl_state[i].seller_id = Seller
          /\ etl_state[i].status = "completed"
          /\ etl_state[i].last_order_id = "o2"

\* C36: every batch the fetcher emits is non-empty and holds no order id
\* twice, also when the page lists an order more than once.
C36_BatchNonEmptyNoDuplicates ==
    pc = "yielded" =>
        /\ batch # << >>
        /\ \A i, j \in DOMAIN batch : batch[i].id = batch[j].id => i = j

\* C37: every record transform_order returns for an order of an emitted batch
\* has a value in each column the orders table declares NOT NULL, so that the
\* load of a batch never fails because of one malformed order.
C37_TransformedRecordsNotNull ==
    \A i \in DOMAIN TransformBatch(batch) :
        NotNullOk(TransformBatch(batch)[i].order)

C15_StoredEmittedAgain == ~resumed /\ stored \cap emitted # {}

\* C16: an order whose transformation raises is dropped from its batch, every
\* other order of the batch is transformed and loaded, the run goes on and is
\* not failed because of that order.
C16_BadOrderDroppedOthersLoaded ==
    /\ pc = "loaded" =>
          /\ outcome = "running" /\ lastWrite.status # "failed"
          /\ \A i \in DOMAIN batch :
                IF batch[i].complete
                THEN /\ lastLoad[batch[i].id] = TransformOrder(batch[i])
                     /\ \E r \in orders : r.id = batch[i].id
                ELSE ~\E r \in orders : r.id = batch[i].id
          /\ ENABLED Checkpoint
    /\ outcome = "load_error" => \E i \in DOMAIN batch : batch[i].complete

\* A batch of a malformed and a well-formed order: the latter is loaded.
C16_Witness ==
    /\ pc = "loaded" /\ Len(batch) = 2
    /\ ~batch[1].complete /\ batch[2].complete
    /\ total_orders = 1
    /\ \E r \in orders : r.id = batch[2].id

\* C17: a state write whose commit fails raises nothing: the persisted rows are
\* those of before the call and the step goes on as it does after a write that
\* committed; after a checkpoint the fetcher asks for the next page.
C17_FailedStateWriteIsSilent ==
    [][/\ (~lastWrite'.committed /\ lastWrite' # lastWrite
             /\ (outcome' = "fetch_error" => ~prevWrite'.committed))
          => etl_state' = etl_state
       /\ (pc = "loaded" /\ outcome' # "interrupted")
          => /\ pc' = "fetch" /\ outcome' = "running" /\ raised' = NoExc
             /\ total_fetched' = total_fetched + Len(batch)]_vars

\* A checkpoint's commit failed and the run went on to the next, committed one.
C17_Witness ==
    /\ pc = "fetch"
    /\ prevWrite.status = "running" /\ ~prevWrite.committed
    /\ lastWrite.status = "running" /\ lastWrite.committed
    /\ lastWrite.total_processed > prevWrite.total_processed
    /\ RowHolds("running", total_fetched)

-----------------------------------------------------------------------------
(* Claims about the loader *)

ItemRowsOf(id) == [r \in {x \in DOMAIN order_items : x.order_id = id} |-> order_items[r]]
PaymentIdsOf(id) == {r.id : r \in {x \in payments : x.order_id = id}}
SeqToSet(list) == {list[i] : i \in DOMAIN list}
LoadedItems(id) == AddItems(EmptyBag, id, lastLoad[id].items)

\* C3: the OrderItem and Payment rows stored for an order id are exactly the
\* items and payments of the most recent committed load of that id (none when
\* that load carried none, none for an id never loaded): nothing of an earlier
\* load remains and nothing is duplicated.
C3_ChildrenAreLastLoad ==
    \A id \in OrderIds :
        IF lastLoad[id] = NoLoad
        THEN ItemRowsOf(id) = EmptyBag /\ PaymentIdsOf(id) = {}
        ELSE /\ ItemRowsOf(id) = LoadedItems(id)
             /\ PaymentIdsOf(id) = SeqToSet(lastLoad[id].payments)
             /\ Cardinality({x \in payments : x.order_id = id}) = Len(lastLoad[id].payments)

\* An order loaded with children is loaded again with other children, and
\* an order is stored with no child rows at all.
C3_Witness ==
    /\ lastLoad["o1"] # NoLoad /\ lastLoad["o2"] # NoLoad
    /\ lastLoad["o1"].items = << >> /\ lastLoad["o1"].payments = << >>
    /\ \E r \in orders : r.id = "o1"
    /\ lastLoad["o2"].items = <<"i2", "i2">>
    /\ [order_id |-> "o2", item |-> "i2"] \in DOMAIN order_items
    /\ [id |-> "p1", order_id |-> "o2"] \notin payments
    /\ loadResult = "ok"

\* C4: exactly one Order row per loaded order id, holding the scalar fields of
\* the most recent committed load of that id; no row for an id never loaded.
C4_OneOrderRowPerId ==
    \A id \in OrderIds :
        IF lastLoad[id] = NoLoad
        THEN {r \in orders : r.id = id} = {}
        ELSE {r \in orders : r.id = id} = {lastLoad[id].order}

C4_Witness ==
    /\ lastLoad["o1"] # NoLoad
    /\ lastLoad["o1"].order.date_created = 2
    /\ loadResult = "raised"
    /\ Cardinality(orders) = 2

\* C5: a load_batch call that raises leaves orders, order_items and payments
\* exactly as they were before the call.
C5_FailedLoadChangesNothing ==
    [][loadResult' = "raised" => <<orders, order_items, payments>>' = <<orders, order_items, payments>>]_<<dbVars, loadVars>>

\* A stored order with children, and the last call raised.
C5_Witness ==
    /\ loadResult = "raised"
    /\ \E r \in payments : r.order_id = "o1"
    /\ \E r \in orders : r.id = "o2"

OrderRowsOf(id) == {r \in orders : r.id = id}
PaymentRowsOf(id) == {r \in payments : r.order_id = id}
BatchIds(list) == {list[i].order.id : i \in DOMAIN list}

\* The rows of every order id outside ids, and the etl_state table, are the
\* same after the step as before it.
OthersUnchanged(ids) ==
    /\ etl_state' = etl_state
    /\ \A id \in OrderIds \ ids :
          /\ OrderRowsOf(id)' = OrderRowsOf(id)
          /\ ItemRowsOf(id)' = ItemRowsOf(id)
          /\ PaymentRowsOf(id)' = PaymentRowsOf(id)

\* The step is a load_batch call whose batch holds exactly the order ids ids.
LoadsBatchOf(ids) ==
    \E list \in Batches, commitOk \in BOOLEAN :
        BatchIds(list) = ids /\ load_batch(list, commitOk)

\* C38: a load_batch call, whether it commits or raises, leaves the Order,
\* OrderItem and Payment rows of every order id that is not in its batch, and
\* the etl_state table, as they were before the call.
C38_LoadTouchesOnlyItsBatch ==
    [][\A ids \in SUBSET OrderIds : OthersUnchanged(ids) \/ ~LoadsBatchOf(ids)]_vars

\* Order o2 is stored with an item and a payment of its own, and a later
\* call replaced the children of o1, the only order of its batch.
C38_Witness ==
    /\ loadResult = "ok"
    /\ lastLoad["o1"] # NoLoad /\ lastLoad["o1"].items = <<"i2", "i2">>
    /\ lastLoad["o1"].payments = <<"p2">>
    /\ lastLoad["o2"] # NoLoad /\ lastLoad["o2"].payments = <<"p1">>
    /\ [id |-> "p1", order_id |-> "o2"] \in payments
    /\ [order_id |-> "o2", item |-> "i1"] \in DOMAIN order_items
    /\ [id |-> "p2", order_id |-> "o1"] \in payments

-----------------------------------------------------------------------------
(* Claims about the rate counter *)

Rejected(res) == ~res.sent /\ res.out.kind = "raise" /\ res.out.exc.msg = "Rate limit exceeded"

\* C6: once RateLimit calls have passed the check in the current window, a
\* further request in that window is rejected with the rate-limit error, is
\* not sent, and leaves the counter as it was; the counter never exceeds the limit.
C6_LimitRejects ==
    /\ [](rate.calls <= RateLimit)
    /\ [][(now' = now /\ rate.calls >= RateLimit /\ now - rate.reset <= Window)
            => (Rejected(reqResult') /\ rate' = rate)]_clientVars

C6_Witness == Rejected(reqResult) /\ rate.calls = RateLimit /\ now - rate.reset = Window

\* C7: a request made more than one window after the counter's last reset
\* resets the counter, passes the check and is sent.
C7_WindowElapsedResets ==
    [][(now' = now /\ now - rate.reset > Window)
         => (rate' = [calls |-> 1, reset |-> now] /\ reqResult'.sent)]_clientVars

\* A request is sent right after one that was rejected.
C7_Witness == reqResult.sent /\ reqResult.after_reject /\ rate.calls = 1 /\ rate.reset > Window

-----------------------------------------------------------------------------
(* Claims about the retry wrapper *)

Raised(run) == run.result.kind = "raise"
Calls(run) == Len(run.trace)

\* The errors of the orders call the design calls transient: HTTP 429, HTTP
\* 5xx, a timeout, a generic network failure.
TransientClientError(exc) ==
    \/ exc.msg \in {"Rate limited", "Request timeout", "Request failed"}
    \/ exc.msg = "HTTP status" /\ exc.status >= 500

NonTransientClientError(exc) == exc.msg \in {"Unauthorized", "Forbidden", "Not found"}

\* C8: a transient error of the orders call reaches the fetcher only after
\* the retry ceiling of 3 attempts has been used up.
C8_TransientRetriedToCeiling ==
    (sac.func = "get_orders" /\ Raised(sac) /\ TransientClientError(sac.trace[1].exc))
        => Calls(sac) = max_retries

\* C9: a 401, 403 or 404 of the orders call leaves safe_api_call after exactly
\* one attempt and without any wait.
C9_NonTransientNotRetried ==
    (sac.func = "get_orders" /\ sac.trace # << >> /\ sac.trace[1].kind = "raise"
        /\ NonTransientClientError(sac.trace[1].exc))
        => (Calls(sac) = 1 /\ sac.sleeps = << >> /\ sac.result = sac.trace[1])

C9_Witness ==
    /\ sac.func = "get_orders" /\ Raised(sac)
    /\ sac.result.exc.msg = "Forbidden" /\ sac.result.exc.status = 403

\* The errors safe_api_call waits after: HTTP 429, and HTTP 5xx or a network
\* error of the requests library.
Throttled(exc) == exc.class = "HTTPError" /\ exc.status = 429
ServerOrNetwork(exc) ==
    \/ exc.class = "HTTPError" /\ exc.status >= 500
    \/ exc.class \in {"Timeout", "ConnectionError"}

\* C30: for every sequence of errors safe_api_call calls the wrapped function
\* at most 3 times; the wait after a failed attempt doubles with the attempt
\* number - 1 s, then 2 s after a server or network error, 60 s times 2 to the
\* attempt number after a 429 - and no wait exceeds 300 s.
C30_ThreeCallsBoundedWaits ==
    /\ Calls(sac) <= 3
    /\ Len(sac.sleeps) <= Calls(sac)
    /\ \A k \in DOMAIN sac.sleeps :
          /\ sac.trace[k].kind = "raise"
          /\ \/ /\ Throttled(sac.trace[k].exc)
                /\ sac.sleeps[k] = <<60, 120, 240>>[k]
             \/ /\ ServerOrNetwork(sac.trace[k].exc)
                /\ k <= 2
                /\ sac.sleeps[k] = <<1, 2>>[k]
          /\ sac.sleeps[k] <= 300

\* Three calls, the first and the third refused with 429, the second with 503.
C30_Witness ==
    /\ Calls(sac) = 3
    /\ sac.sleeps = <<60, 2, 240>>
    /\ sac.trace[2].exc.status = 503

\* The last permitted attempt of the invocation failed.
LastAttemptFailed(run) == Calls(run) = max_retries /\ run.trace[max_retries].kind = "raise"

\* C39: safe_api_call waits only between attempts: when its last permitted
\* attempt fails - with an HTTP 429 as with a server or network error - no wait
\* follows that attempt and safe_api_call raises that attempt's own error.
C39_NoWaitAfterLastAttempt ==
    LastAttemptFailed(sac) =>
        /\ Len(sac.sleeps) < Calls(sac)
        /\ sac.result = sac.trace[max_retries]

-----------------------------------------------------------------------------
(* Claims about token management *)

\* The token get_token finds: the file's, or the fallback credentials.
Cached == IF token_file # NoFile THEN token_file ELSE FallbackToken(fallback_expires)
CachedExpired == now >= Cached.expires_at - Margin

C19_ValidCachedNoRefresh ==
    /\ [][now' = now =>
            IF now < Cached.expires_at - Margin
            THEN /\ tok'.returned = Cached.access_token
                 /\ ~tok'.contacted /\ tok'.exchange = "none"
                 /\ token_file' = token_file /\ issued' = issued
            ELSE tok'.contacted]_<<now, tokenVars>>
    /\ [][(now' = now /\ tok.exchange = "ok" /\ tok.at = now
             /\ token_file.expires_in > Margin)
            => (~tok'.contacted /\ tok'.returned = tok.returned
                /\ token_file' = token_file)]_<<now, tokenVars>>

\* The token saved at this very instant is returned without a refresh.
C19_Witness ==
    /\ tok.exchange = "none" /\ ~tok.contacted /\ tok.at = now
    /\ tok.returned = 2 /\ token_file.access_token = 2
    /\ token_file.expires_at = now + token_file.expires_in
    /\ now > 0

-----------------------------------------------------------------------------
(* Claims about the transformer *)

Parses(stamp) == stamp.form \in {"naive", "Z", "-04:00", "-03:00", "-05:00"}

\* C20: transform_order never raises because of date_closed, and
\* processing_time_hours is date_closed minus date_created in hours when both
\* stamps are present and parse, null in every other case.
C20_ProcessingTimeOrNull ==
    order_out # NotTransformed =>
        /\ order_out.kind = "return"
        /\ order_out.processing_time_hours =
              IF Parses(order_data.date_created) /\ Parses(order_data.date_closed)
              THEN Hours(order_out.date_closed.t - order_out.date_created.t)
              ELSE NoHours

-----------------------------------------------------------------------------
(* Claims about the enricher *)

NonEmptyItem(item) == item.kind = "dict" /\ item # EmptyDict
KeptItems ==
    IF raw_items.kind = "None" THEN << >> ELSE SelectSeq(raw_items.items, NonEmptyItem)

\* C22: enrich_items returns one enriched record for each non-empty item of
\* its input, in input order; a None input or an empty list gives an empty
\* list, None entries and empty-dict entries are skipped, and no call raises.
C22_OneRecordPerNonEmptyItem ==
    enriched # NotEnriched =>
        /\ enriched.kind = "return"
        /\ Len(enriched.value) = Len(KeptItems)
        /\ \A i \in DOMAIN KeptItems : enriched.value[i] = EnrichedRecord(KeptItems[i])

\* C23: the discount_percentage of an enriched item is never negative: 0 when
\* the original price is zero or missing or the current price is not below
\* it, and (original - current) / original * 100 otherwise.
C23_DiscountNeverNegative ==
    enriched.kind = "return" =>
        \A i \in DOMAIN enriched.value :
            LET original == raw_items.items[i].original_price
                current == Or(raw_items.items[i].price, 0)
            IN  /\ enriched.value[i].discount_percentage >= 0
                /\ enriched.value[i].discount_percentage =
                      IF original \in {Missing, 0} \/ current >= original
                      THEN 0
                      ELSE RoundDiv((original - current) * 10000, original)

-----------------------------------------------------------------------------
(* Claims about the rate check over time *)

\* C31: in every interval of one minute, aligned to the counter's reset time
\* or not, at most cfg.rate_limit requests pass the rate check and are sent:
\* RateLimit + 1 requests sent in a row always span a minute or more.
C31_RollingWindowLimit ==
    Len(sent_at) > RateLimit => sent_at[Len(sent_at)] - sent_at[1] >= Window

====
